---- MODULE Spec2Model ----
(***************************************************************************)
(* Model of pipeline.py: the scenario driver (the __m5_main__ block), the  *)
(* output redirection (redirect_stdout), the system builder                *)
(* (create_system) and one simulation run (run_simulation).                *)
(*                                                                         *)
(* The script is one thread of control; pc is its position.  The           *)
(* simulation engine (m5) is external: instantiation may succeed or fail,  *)
(* and a simulation advances the statistics counters cycle by cycle until  *)
(* it reports an exit event (or never does).                               *)
(***************************************************************************)
EXTENDS Integers, Sequences, FiniteSets, TLC

\* ---------------------------------------------------------------- bounds
MaxThreads == 2     \* requested num_threads range over 1..MaxThreads
MaxWidth   == 2     \* requested issue_width range over 1..MaxWidth
MaxCycles  == 2     \* cycles one simulation may run before it must exit

\* ------------------------------------------------------- input domains
CpuTypes == {"MinorCPU", "DerivO3CPU", "AtomicSimpleCPU"}

Predictors == {"None", "BiModeBP"}

ExitCauses == {"exiting with last active thread context", "exit() called"}

Config(t, n, w, bp) ==
    [cpu_type |-> t, num_threads |-> n, issue_width |-> w, branch_prediction |-> bp]

Configs ==
    { Config(t, n, w, bp) : t \in CpuTypes, n \in 1..MaxThreads,
                            w \in 1..MaxWidth, bp \in Predictors }

\* The four calls of the main block, with the defaults of run_simulation's
\* signature (num_threads=1, issue_width=1, branch_prediction=None).
Reference ==
    << Config("MinorCPU", 1, 1, "None"),
       Config("MinorCPU", 1, 1, "BiModeBP"),
       Config("DerivO3CPU", 1, 2, "None"),
       Config("DerivO3CPU", 2, 2, "None") >>

Banners ==
    << "Basic pipeline simulation...",
       "Simulation with branch prediction...",
       "Superscalar configuration...",
       "SMT configuration with 2 threads..." >>

NumScenarios == Len(Reference)

\* The batches the driver is run on: the reference batch, and the reference
\* batch with one call's arguments replaced by an arbitrary configuration.
Batches ==
    { [Reference EXCEPT ![i] = c] : i \in 1..NumScenarios, c \in Configs }

\* ------------------------------------------------------ create_system
SetAttr(obj, attr, v) == (attr :> v) @@ obj

\* A freshly constructed core: no width has been assigned yet; numThreads is
\* the core parameter's declared default of one hardware thread.
NewCPU(kind) == [kind |-> kind, numThreads |-> 1]

\* Variant: the MinorCPU branch takes its widths and threads from the arguments.
MinorCoreFromArgs(num_threads, issue_width) ==
    [kind |-> "MinorCPU", numThreads |-> num_threads,
     fetchWidth |-> issue_width, decodeWidth |-> issue_width,
     executeWidth |-> issue_width, memoryWidth |-> issue_width,
     commitWidth |-> issue_width]

\* The MinorCPU branch: the two arguments are in scope and not used.
MinorCore(num_threads, issue_width) ==
    [kind |-> "MinorCPU", numThreads |-> NewCPU("MinorCPU").numThreads,
     fetchWidth |-> 1, decodeWidth |-> 1, executeWidth |-> 1,
     memoryWidth |-> 1, commitWidth |-> 1]

\* Variant: the DerivO3CPU branch does not assign numThreads.
O3CoreSingleThread(num_threads, issue_width) ==
    [kind |-> "DerivO3CPU",
     fetchWidth |-> issue_width, decodeWidth |-> issue_width,
     issueWidth |-> issue_width, executeWidth |-> issue_width,
     commitWidth |-> issue_width, numThreads |-> NewCPU("DerivO3CPU").numThreads]

O3Core(num_threads, issue_width) ==
    [kind |-> "DerivO3CPU",
     fetchWidth |-> issue_width, decodeWidth |-> issue_width,
     issueWidth |-> issue_width, executeWidth |-> issue_width,
     commitWidth |-> issue_width, numThreads |-> num_threads]

\* Variant: no else branch, an unknown kind silently gets the second branch.
SupportedAny(cpu_type) == TRUE

Supported(cpu_type) == cpu_type \in {"MinorCPU", "DerivO3CPU"}

ConfigureCPU(cfg) ==
    IF cfg.cpu_type = "MinorCPU"
    THEN MinorCore(cfg.num_threads, cfg.issue_width)
    ELSE O3Core(cfg.num_threads, cfg.issue_width)

AttachPredictor(cpu, bp) ==
    IF bp # "None" THEN SetAttr(cpu, "branchPred", bp) ELSE cpu

\* The value create_system returns, or the error it raises.
CreateSystem(cfg) ==
    IF ~Supported(cfg.cpu_type)
    THEN [raised |-> "ValueError"]
    ELSE [raised |-> "None",
          sys |-> [clock    |-> "1GHz",
                   cpu      |-> AttachPredictor(ConfigureCPU(cfg), cfg.branch_prediction),
                   mem_mode |-> "timing",
                   mem_range |-> "512MB",
                   dram     |-> "DDR3_1600_8x8",
                   cmd      |-> <<"hello">>,
                   threads  |-> ConfigureCPU(cfg).numThreads]]

\* ------------------------------------------------------------ m5.stats
ZeroStats == [numInsts |-> 0, numCycles |-> 0]

\* Variant: a reset that leaves the counters as they are.
StatsResetKeeps(s) == s

StatsReset(s) == ZeroStats

StatsDump(s) == s

\* sys.cpu.ipc: the engine's formula numInsts / numCycles, kept as a ratio.
Ipc(s) == [num |-> s.numInsts, den |-> s.numCycles]

NoResult == [set |-> FALSE]

NoSys == [bound |-> FALSE]

NoTerm == [set |-> FALSE]

RunSteps == {"create", "root", "instantiate", "simulate", "exit", "dump1", "reset1",
             "display", "reset2", "dump2"}

NewScenario ==
    [state |-> "pending", calls |-> 0, built |-> 0, results |-> 0, steps |-> {},
     counted |-> FALSE]

\* ---------------------------------------------------------------- state
VARIABLES
    batch,            \* the argument lists of the driver's run_simulation calls
    pc,               \* position of the script
    idx,              \* which call of the main block is current
    exc,              \* exception in flight ("None" when there is none)
    sys_stdout,       \* sys.stdout: "console" or "file"
    original_stdout,  \* redirect_stdout's saved stream
    fileOpen,         \* output.txt is open
    opens,            \* history: how many times output.txt was opened
    out,              \* lines written so far, per stream
    sysv,             \* run_simulation's local sys
    exit_event,       \* run_simulation's local exit_event (its cause)
    result,           \* run_simulation's locals ipc, instructions, cycles
    root,             \* id of the description under the engine's Root (0: none)
    instantiated,     \* ids of the descriptions the engine holds state for
    stats,            \* the engine's statistics counters (m5.stats)
    descs,            \* every description create_system returned, by id
    own,              \* history: what the current run's simulation counted
    term,             \* history: the counters when the engine reported the exit
    trail,            \* history: the current run's dumps and resets, in order
    scen              \* history: per call, its progress

vars == << batch, pc, idx, exc, sys_stdout, original_stdout, fileOpen, opens, out, sysv,
           exit_event, result, root, instantiated, stats, descs, own, term, trail,
           scen >>

io == << sys_stdout, original_stdout, fileOpen, opens >>

locals == << sysv, exit_event, result >>

engine == << root, instantiated, stats >>

history == << own, term, trail >>

Init ==
    /\ batch \in Batches
    /\ pc = "main"
    /\ idx = 0
    /\ exc = "None"
    /\ sys_stdout = "console"
    /\ original_stdout = "console"
    /\ fileOpen = FALSE
    /\ opens = 0
    /\ out = [console |-> << >>, file |-> << >>]
    /\ sysv = NoSys
    /\ exit_event = "None"
    /\ result = NoResult
    /\ root = 0
    /\ instantiated = {}
    /\ stats = ZeroStats
    /\ descs = << >>
    /\ own = ZeroStats
    /\ term = NoTerm
    /\ trail = << >>
    /\ scen = [k \in 1..NumScenarios |-> NewScenario]

\* print(...): one line to whatever sys.stdout currently is.
Write(lines) == out' = [out EXCEPT ![sys_stdout] = @ \o lines]

Step(tag) == scen' = [scen EXCEPT ![idx].steps = @ \cup {tag}]

\* ------------------------------------------------------ redirect_stdout
\* with redirect_stdout("output.txt"): save the stream, open the file, swap.
EnterRedirect ==
    /\ pc = "main"
    /\ original_stdout' = sys_stdout
    /\ fileOpen' = TRUE
    /\ opens' = opens + 1
    /\ sys_stdout' = "file"
    /\ idx' = 1
    /\ pc' = "banner"
    /\ UNCHANGED << batch, exc, out, locals, engine, descs, history, scen >>

\* Leaving the with block normally: the finally clause restores the stream and
\* the inner with closes the file.
ExitRedirect ==
    /\ pc = "with_exit"
    /\ sys_stdout' = original_stdout
    /\ fileOpen' = FALSE
    /\ pc' = "final"
    /\ UNCHANGED << batch, idx, exc, original_stdout, opens, out, locals, engine,
                    descs, history, scen >>

\* Variant: no try/finally and no with around the file: an exception leaves the
\* stream swapped and the file open.
UnwindNoCleanup ==
    /\ pc = "unwind"
    /\ pc' = "aborted"
    /\ UNCHANGED << batch, idx, exc, io, out, locals, engine, descs, history, scen >>

\* Leaving it with an exception in flight: the same clean-up, then the exception
\* leaves the script (nothing catches it) and line 130 is not reached.
UnwindRedirect ==
    /\ pc = "unwind"
    /\ sys_stdout' = original_stdout
    /\ fileOpen' = FALSE
    /\ pc' = "aborted"
    /\ UNCHANGED << batch, idx, exc, original_stdout, opens, out, locals, engine,
                    descs, history, scen >>

FinalMessage ==
    /\ pc = "final"
    /\ Write(<< [tag |-> "written", run |-> 0] >>)
    /\ pc' = "done"
    /\ UNCHANGED << batch, idx, exc, io, locals, engine, descs, history, scen >>

\* ------------------------------------------------------------ main block
Banner ==
    /\ pc = "banner"
    /\ Write(<< [tag |-> "banner", run |-> idx, text |-> Banners[idx]] >>)
    /\ scen' = [scen EXCEPT ![idx].state = "running"]
    /\ pc' = "create"
    /\ UNCHANGED << batch, idx, exc, io, locals, engine, descs, history >>

\* -------------------------------------------------------- run_simulation
\* sys = create_system(...) returned a description.
CreateOk ==
    /\ pc = "create"
    /\ LET r == CreateSystem(batch[idx]) IN
        /\ r.raised = "None"
        /\ sysv' = [bound |-> TRUE, id |-> Len(descs) + 1, sys |-> r.sys]
        /\ descs' = Append(descs, [by |-> idx, instantiations |-> 0, simulations |-> << >>])
    /\ scen' = [scen EXCEPT ![idx].calls = @ + 1, ![idx].built = @ + 1,
                            ![idx].steps = @ \cup {"create"}]
    /\ pc' = "root"
    /\ UNCHANGED << batch, idx, exc, io, out, exit_event, result, engine, history >>

\* create_system raised: run_simulation has no handler, the main block has none.
CreateRaise ==
    /\ pc = "create"
    /\ LET r == CreateSystem(batch[idx]) IN
        /\ r.raised # "None"
        /\ exc' = r.raised
    /\ scen' = [scen EXCEPT ![idx].calls = @ + 1, ![idx].state = "failed"]
    /\ pc' = "unwind"
    /\ UNCHANGED << batch, idx, io, out, locals, engine, descs, history >>

\* root = Root(full_system=False, system=sys)
MakeRoot ==
    /\ pc = "root"
    /\ root' = sysv.id
    /\ Step("root")
    /\ pc' = "instantiate"
    /\ UNCHANGED << batch, idx, exc, io, out, locals, instantiated, stats, descs, history >>

\* m5.instantiate() succeeded: the engine now holds state for the description.
InstantiateOk ==
    /\ pc = "instantiate"
    /\ instantiated' = instantiated \cup {root}
    /\ descs' = [descs EXCEPT ![root].instantiations = @ + 1]
    /\ Step("instantiate")
    /\ pc' = "start"
    /\ UNCHANGED << batch, idx, exc, io, out, locals, root, stats, history >>

\* Variant: the failure is caught and the driver goes on with its next call.
InstantiateFailSkipped ==
    /\ pc = "instantiate"
    /\ scen' = [scen EXCEPT ![idx].state = "failed"]
    /\ IF idx < NumScenarios
       THEN idx' = idx + 1 /\ pc' = "banner" /\ exc' = exc
       ELSE idx' = idx /\ pc' = "unwind" /\ exc' = "InstantiationFailure"
    /\ sysv' = NoSys
    /\ UNCHANGED << batch, io, out, exit_event, result, engine, descs, history >>

\* m5.instantiate() failed: the error leaves run_simulation.
InstantiateFail ==
    /\ pc = "instantiate"
    /\ exc' = "InstantiationFailure"
    /\ scen' = [scen EXCEPT ![idx].state = "failed"]
    /\ pc' = "unwind"
    /\ UNCHANGED << batch, idx, io, out, locals, engine, descs, history >>

\* Variant: the simulation is started without waiting for it and the driver
\* goes on with its next call.
StartSimulationDetached ==
    /\ pc = "start"
    /\ Write(<< [tag |-> "start", run |-> idx] >>)
    /\ descs' = [descs EXCEPT ![root].simulations = Append(@, idx)]
    /\ Step("simulate")
    /\ IF idx < NumScenarios
       THEN idx' = idx + 1 /\ pc' = "banner"
       ELSE idx' = idx /\ pc' = "in_engine"
    /\ UNCHANGED << batch, exc, io, locals, engine, history >>

\* print("Starting simulation..."); the call of m5.simulate() enters the engine.
StartSimulation ==
    /\ pc = "start"
    /\ Write(<< [tag |-> "start", run |-> idx] >>)
    /\ descs' = [descs EXCEPT ![root].simulations = Append(@, idx)]
    /\ Step("simulate")
    /\ pc' = "in_engine"
    /\ UNCHANGED << batch, idx, exc, io, locals, engine, history >>

\* Inside m5.simulate(): one cycle, committing up to commitWidth instructions.
SimCycle ==
    /\ pc = "in_engine"
    /\ own.numCycles < MaxCycles
    /\ \E k \in 0..sysv.sys.cpu.commitWidth :
        /\ stats' = [numInsts |-> stats.numInsts + k, numCycles |-> stats.numCycles + 1]
        /\ own' = [numInsts |-> own.numInsts + k, numCycles |-> own.numCycles + 1]
    /\ UNCHANGED << batch, pc, idx, exc, io, out, locals, root, instantiated, descs,
                    term, trail, scen >>

\* m5.simulate() returns the exit event.
SimExit ==
    /\ pc = "in_engine"
    /\ exit_event' \in ExitCauses
    /\ term' = [set |-> TRUE, numInsts |-> stats.numInsts, numCycles |-> stats.numCycles]
    /\ scen' = [scen EXCEPT ![idx].steps = @ \cup {"exit"},
                            ![idx].counted = stats.numInsts > 0 /\ stats.numCycles > 0]
    /\ pc' = "report"
    /\ UNCHANGED << batch, idx, exc, io, out, sysv, result, engine, descs, own, trail >>

\* The two prints of lines 95-96 (the log keeps which line, not its tick and cause).
ReportEnd ==
    /\ pc = "report"
    /\ Write(<< [tag |-> "ended", run |-> idx],
                [tag |-> "collecting", run |-> idx] >>)
    /\ pc' = "dump1"
    /\ UNCHANGED << batch, idx, exc, io, locals, engine, descs, history, scen >>

\* m5.stats.dump() of line 97
Dump1 ==
    /\ pc = "dump1"
    /\ trail' = Append(trail, [op |-> "dump", val |-> StatsDump(stats)])
    /\ Step("dump1")
    /\ pc' = "reset1"
    /\ UNCHANGED << batch, idx, exc, io, out, locals, engine, descs, own, term >>

\* Variant: line 98 missing, only the reset of line 108 clears the counters.
Reset1Missing ==
    /\ pc = "reset1"
    /\ trail' = Append(trail, [op |-> "reset", val |-> stats])
    /\ Step("reset1")
    /\ pc' = "read"
    /\ UNCHANGED << batch, idx, exc, io, out, locals, engine, descs, own, term >>

\* m5.stats.reset() of line 98
Reset1 ==
    /\ pc = "reset1"
    /\ stats' = StatsReset(stats)
    /\ trail' = Append(trail, [op |-> "reset", val |-> stats'])
    /\ Step("reset1")
    /\ pc' = "read"
    /\ UNCHANGED << batch, idx, exc, io, out, locals, root, instantiated, descs, own, term >>

\* Lines 101-103: the three metrics are read from the core's counters now.
ReadMetrics ==
    /\ pc = "read"
    /\ result' = [set |-> TRUE, ipc |-> Ipc(stats), instructions |-> stats.numInsts,
                  cycles |-> stats.numCycles]
    /\ pc' = "display"
    /\ UNCHANGED << batch, idx, exc, io, out, sysv, exit_event, engine, descs, history, scen >>

\* Lines 104-106: the three metric lines.
DisplayMetrics ==
    /\ pc = "display"
    /\ Write(<< [tag |-> "instructions", run |-> idx, val |-> result.instructions],
                [tag |-> "ipc", run |-> idx, val |-> result.ipc],
                [tag |-> "cycles", run |-> idx, val |-> result.cycles] >>)
    /\ scen' = [scen EXCEPT ![idx].results = @ + 1, ![idx].steps = @ \cup {"display"}]
    /\ pc' = "reset2"
    /\ UNCHANGED << batch, idx, exc, io, locals, engine, descs, history >>

\* m5.stats.reset() of line 108
Reset2 ==
    /\ pc = "reset2"
    /\ stats' = StatsReset(stats)
    /\ trail' = Append(trail, [op |-> "reset", val |-> stats'])
    /\ Step("reset2")
    /\ pc' = "dump2"
    /\ UNCHANGED << batch, idx, exc, io, out, locals, root, instantiated, descs, own, term >>

\* m5.stats.dump() of line 109
Dump2 ==
    /\ pc = "dump2"
    /\ trail' = Append(trail, [op |-> "dump", val |-> StatsDump(stats)])
    /\ Step("dump2")
    /\ pc' = "return"
    /\ UNCHANGED << batch, idx, exc, io, out, locals, engine, descs, own, term >>

\* Variant: the description is built once and handed to the next call as well.
ReturnKeepsSystem ==
    /\ pc = "return"
    /\ exit_event' = "None"
    /\ result' = NoResult
    /\ own' = ZeroStats
    /\ term' = NoTerm
    /\ trail' = << >>
    /\ IF idx < NumScenarios
       THEN /\ idx' = idx + 1
            /\ pc' = "root"
            /\ scen' = [scen EXCEPT ![idx].state = "returned", ![idx + 1].state = "running",
                                    ![idx + 1].calls = @ + 1]
       ELSE /\ idx' = idx
            /\ pc' = "with_exit"
            /\ scen' = [scen EXCEPT ![idx].state = "returned"]
    /\ UNCHANGED << batch, exc, io, out, sysv, engine, descs >>

\* run_simulation returns: its locals are gone; the main block goes on to its
\* next call, or leaves the with block after the last one.
Return ==
    /\ pc = "return"
    /\ sysv' = NoSys
    /\ exit_event' = "None"
    /\ result' = NoResult
    /\ own' = ZeroStats
    /\ term' = NoTerm
    /\ trail' = << >>
    /\ scen' = [scen EXCEPT ![idx].state = "returned"]
    /\ IF idx < NumScenarios
       THEN idx' = idx + 1 /\ pc' = "banner"
       ELSE idx' = idx /\ pc' = "with_exit"
    /\ UNCHANGED << batch, exc, io, out, engine, descs >>

Next ==
    \/ EnterRedirect
    \/ Banner
    \/ CreateOk
    \/ CreateRaise
    \/ MakeRoot
    \/ InstantiateOk
    \/ InstantiateFail
    \/ StartSimulation
    \/ SimCycle
    \/ SimExit
    \/ ReportEnd
    \/ Dump1
    \/ Reset1
    \/ ReadMetrics
    \/ DisplayMetrics
    \/ Reset2
    \/ Dump2
    \/ Return
    \/ ExitRedirect
    \/ UnwindRedirect
    \/ FinalMessage

Spec == Init /\ [][Next]_vars

\* ================================================================ claims
Scenarios == 1..NumScenarios

InRun == pc \in {"create", "root", "instantiate", "start", "in_engine", "report",
                 "dump1", "reset1", "read", "display", "reset2", "dump2", "return"}

\* the lines with this tag that call k wrote to a stream
Lines(stream, tag, k) == SelectSeq(out[stream], LAMBDA l : l.tag = tag /\ l.run = k)

TermStats == [numInsts |-> term.numInsts, numCycles |-> term.numCycles]

Displayed == pc \in {"reset2", "dump2", "return"}

\* C1: the instruction count, cycle count and IPC printed for a run that
\* committed n > 0 instructions in c > 0 cycles are n, c and n/c, the counter
\* values at the moment the engine reported termination.
C1_PrintedAreTerminationValues ==
    (Displayed /\ term.set /\ term.numInsts > 0 /\ term.numCycles > 0) =>
        /\ Lines("file", "instructions", idx) =
              << [tag |-> "instructions", run |-> idx, val |-> term.numInsts] >>
        /\ Lines("file", "cycles", idx) =
              << [tag |-> "cycles", run |-> idx, val |-> term.numCycles] >>
        /\ Lines("file", "ipc", idx) =
              << [tag |-> "ipc", run |-> idx,
                  val |-> [num |-> term.numInsts, den |-> term.numCycles]] >>

\* C2 as stated: for DerivO3CPU the fetch, decode, execute, memory and commit
\* widths of the returned description all equal issue_width and numThreads
\* equals num_threads.
C2_AllFiveTableWidths ==
    (sysv.bound /\ batch[idx].cpu_type = "DerivO3CPU") =>
        LET cpu == sysv.sys.cpu
            w   == batch[idx].issue_width
        IN  /\ cpu.numThreads = batch[idx].num_threads
            /\ cpu.fetchWidth = w /\ cpu.decodeWidth = w
            /\ cpu.executeWidth = w /\ cpu.commitWidth = w
            /\ "memoryWidth" \in DOMAIN cpu
            /\ cpu.memoryWidth = w

\* C2 as amended: for DerivO3CPU the fetch, decode, issue, execute and commit
\* widths of the returned description all equal issue_width, numThreads (and
\* the number of thread contexts created) equals num_threads, and no memory
\* width is assigned.
C2_O3Widths ==
    (sysv.bound /\ batch[idx].cpu_type = "DerivO3CPU") =>
        LET cpu == sysv.sys.cpu
            w   == batch[idx].issue_width
        IN  /\ cpu.kind = "DerivO3CPU"
            /\ cpu.numThreads = batch[idx].num_threads
            /\ sysv.sys.threads = batch[idx].num_threads
            /\ cpu.fetchWidth = w /\ cpu.decodeWidth = w /\ cpu.issueWidth = w
            /\ cpu.executeWidth = w /\ cpu.commitWidth = w
            /\ "memoryWidth" \notin DOMAIN cpu

C2_Witness ==
    /\ sysv.bound
    /\ batch[idx].cpu_type = "DerivO3CPU"
    /\ batch[idx].issue_width = 2
    /\ batch[idx].num_threads = 2
    /\ sysv.sys.cpu.numThreads = 2

\* C3: for MinorCPU the fetch, decode, execute, memory and commit widths of the
\* returned description are all 1 and its thread count is 1, whatever
\* issue_width and num_threads were requested.
C3_MinorFixed ==
    (sysv.bound /\ batch[idx].cpu_type = "MinorCPU") =>
        LET cpu == sysv.sys.cpu
        IN  /\ cpu.kind = "MinorCPU"
            /\ cpu.fetchWidth = 1 /\ cpu.decodeWidth = 1 /\ cpu.executeWidth = 1
            /\ cpu.memoryWidth = 1 /\ cpu.commitWidth = 1
            /\ cpu.numThreads = 1
            /\ sysv.sys.threads = 1

C3_Witness ==
    /\ sysv.bound
    /\ batch[idx].cpu_type = "MinorCPU"
    /\ batch[idx].issue_width > 1
    /\ batch[idx].num_threads > 1

\* C4: a call whose core kind is neither MinorCPU nor DerivO3CPU fails with
\* ValueError and yields no description; it never reaches the root, the
\* instantiation or the simulation, the engine holds nothing of it and the
\* counters are as they were when the call began (zero).
C4_UnsupportedKindFails ==
    \A k \in Scenarios :
        ~(batch[k].cpu_type \in {"MinorCPU", "DerivO3CPU"}) =>
            /\ scen[k].built = 0
            /\ scen[k].steps = {}
            /\ scen[k].results = 0
            /\ \A i \in DOMAIN descs : descs[i].by # k
            /\ (idx = k /\ pc # "banner") =>
                  /\ pc \in {"create", "unwind", "aborted"}
                  /\ ~sysv.bound
                  /\ stats = ZeroStats
                  /\ own = ZeroStats
                  /\ root \in 0..Len(descs)
                  /\ instantiated \subseteq DOMAIN descs
                  /\ (pc # "create") => (exc = "ValueError" /\ scen[k].state = "failed")

C4_Witness ==
    /\ pc = "aborted"
    /\ exc = "ValueError"
    /\ idx = 2
    /\ scen[1].counted
    /\ batch[2].cpu_type = "AtomicSimpleCPU"

\* the descriptions call k built
DescsOf(k) == { i \in DOMAIN descs : descs[i].by = k }

\* C5: the counters are zero from the start of every call up to the start of
\* its simulation (so also when the next description is built) and zero when
\* run_simulation returns; while a run simulates and when it terminates the
\* counters hold exactly what that run's own simulation counted.
C5_CountersPerRun ==
    /\ pc \in {"main", "banner", "create", "root", "instantiate", "start"} => stats = ZeroStats
    /\ pc \in {"return", "with_exit", "final", "done"} => stats = ZeroStats
    /\ pc = "in_engine" => stats = own
    /\ term.set => TermStats = own
    /\ \A i \in DOMAIN trail :
          (i = 1 /\ trail[i].op = "dump") => trail[i].val = own

C5_Witness ==
    /\ idx = 2
    /\ scen[1].state = "returned"
    /\ scen[1].counted
    /\ pc = "dump1"
    /\ term.set
    /\ term.numInsts > 0
    /\ TermStats = own

\* C6: every call builds one description of its own, which is instantiated and
\* simulated at most once and only by the call that built it; a call that
\* returned has exactly one description, instantiated once and simulated once,
\* and one set of result lines; the completed reference batch has four
\* descriptions for its four calls.
C6_OneDescriptionPerScenario ==
    /\ \A i \in DOMAIN descs :
          /\ descs[i].instantiations <= 1
          /\ Len(descs[i].simulations) <= 1
          /\ \A j \in DOMAIN descs[i].simulations : descs[i].simulations[j] = descs[i].by
    /\ \A k \in Scenarios :
          /\ scen[k].built <= 1
          /\ scen[k].results <= 1
          /\ Cardinality(DescsOf(k)) = scen[k].built
          /\ Len(Lines("file", "instructions", k)) = scen[k].results
          /\ Len(Lines("file", "ipc", k)) = scen[k].results
          /\ Len(Lines("file", "cycles", k)) = scen[k].results
          /\ scen[k].state = "returned" =>
                /\ scen[k].built = 1
                /\ scen[k].results = 1
                /\ \A i \in DescsOf(k) :
                      descs[i].instantiations = 1 /\ descs[i].simulations = << k >>
    /\ (sysv.bound /\ InRun) => (sysv.id = Len(descs) /\ descs[sysv.id].by = idx)
    /\ (batch = Reference /\ pc = "done") =>
          /\ Len(descs) = NumScenarios
          /\ \A k \in Scenarios : scen[k].state = "returned" /\ descs[k].by = k

C6_Witness ==
    /\ batch = Reference
    /\ pc = "done"
    /\ Len(descs) = NumScenarios
    /\ \A k \in Scenarios : scen[k].counted

\* C7: at most one call is in flight; a call has taken any step only if every
\* earlier call has finished all its steps and returned (a failed call, the
\* claim's other case, has no successor at all); while an earlier call has not
\* seen the engine's exit, no later call has taken any step.
C7_StrictlySequential ==
    /\ Cardinality({ k \in Scenarios : scen[k].state = "running" }) <= 1
    /\ \A k \in Scenarios :
          /\ scen[k].state = "running" => idx = k
          /\ scen[k].state = "returned" => scen[k].steps = RunSteps
          /\ k > idx => scen[k] = NewScenario
          /\ \A j \in Scenarios :
                (j > k /\ scen[j] # NewScenario) =>
                    /\ scen[k].state = "returned"
                    /\ "exit" \in scen[k].steps
                    /\ scen[k].steps = RunSteps

C7_Witness ==
    /\ idx = 2
    /\ pc = "in_engine"
    /\ own.numCycles > 0
    /\ scen[1].steps = RunSteps
    /\ scen[1].state = "returned"
    /\ scen[3] = NewScenario

\* C8: a call that failed (ValueError from create_system or a failed
\* instantiation) was made once, printed no result line, and is the last thing
\* the driver did: no later call has been started, and the exception is on its
\* way out of the script or has left it.
C8_FailureIsFatal ==
    /\ exc # "None" => (pc \in {"unwind", "aborted"} /\ scen[idx].state = "failed")
    /\ \A k \in Scenarios :
          /\ scen[k].calls <= 1
          /\ scen[k].state = "failed" =>
                /\ idx = k
                /\ pc \in {"unwind", "aborted"}
                /\ exc \in {"ValueError", "InstantiationFailure"}
                /\ scen[k].results = 0
                /\ Lines("file", "instructions", k) = << >>
                /\ Lines("file", "ipc", k) = << >>
                /\ Lines("file", "cycles", k) = << >>
                /\ Lines("console", "instructions", k) = << >>
                /\ \A i \in DescsOf(k) : descs[i].simulations = << >>
                /\ \A j \in Scenarios : j > k => scen[j] = NewScenario
                /\ Lines("console", "written", 0) = << >>

C8_Witness ==
    /\ pc = "aborted"
    /\ exc = "InstantiationFailure"
    /\ idx = 2
    /\ scen[1].state = "returned"
    /\ scen[2].state = "failed"
    /\ scen[3] = NewScenario

\* C9: output.txt is opened once; from the first banner until the with block is
\* left every line goes to the file; once the batch has ended, normally or by
\* an exception, the file is closed and sys.stdout is the original stream; only
\* the final message is written to the original stream.
C9_SinkReleased ==
    /\ opens <= 1
    /\ pc \in {"final", "done", "aborted"} =>
          (~fileOpen /\ sys_stdout = "console" /\ opens = 1)
    /\ pc \notin {"main", "final", "done", "aborted"} =>
          (fileOpen /\ sys_stdout = "file" /\ original_stdout = "console" /\ opens = 1)
    /\ pc = "main" => (~fileOpen /\ sys_stdout = "console" /\ opens = 0)
    /\ \A i \in DOMAIN out.console : out.console[i].tag = "written"
    /\ \A i \in DOMAIN out.file : out.file[i].tag # "written"
    /\ pc = "done" => Len(out.console) = 1
    /\ pc = "aborted" => out.console = << >>

C9_Witness ==
    /\ pc = "aborted"
    /\ idx = 3
    /\ Len(out.file) > 0
    /\ ~fileOpen
    /\ sys_stdout = "console"

\* C10 as stated: after the engine's exit nothing is simulated, the second
\* reset leaves the counters as the first left them, and each dump emits the
\* counters the run accumulated.
C10_EachDumpEmitsAccumulated ==
    /\ term.set => TermStats = own
    /\ pc \in {"dump2", "return"} => (trail[3].val = trail[2].val)
    /\ \A i \in DOMAIN trail : trail[i].op = "dump" => trail[i].val = TermStats

\* C10 as amended: the run's dumps and resets are, in order, a dump of the
\* accumulated counters, a reset to zero, a second reset that changes nothing,
\* and a second dump that emits the zeroed counters; nothing is simulated
\* after the engine's exit.
C10_DumpResetResetDump ==
    /\ term.set => TermStats = own
    /\ Len(trail) <= 4
    /\ \A i \in DOMAIN trail :
          /\ i = 1 => trail[i] = [op |-> "dump", val |-> TermStats]
          /\ i = 2 => trail[i] = [op |-> "reset", val |-> ZeroStats]
          /\ i = 3 => trail[i] = [op |-> "reset", val |-> trail[2].val]
          /\ i = 4 => trail[i] = [op |-> "dump", val |-> ZeroStats]
    /\ pc = "return" => Len(trail) = 4
    /\ pc \in {"read", "display", "reset2", "dump2", "return"} => stats = ZeroStats

C10_Witness ==
    /\ pc = "return"
    /\ Len(trail) = 4
    /\ term.numInsts > 0
    /\ trail[1].val.numInsts > 0
    /\ trail[4].val = ZeroStats

====
